---- MODULE Spec2Model ----
(***************************************************************************)
(* Model of googleanalytics/query.py: the chainable query builder (Query,  *)
(* CoreQuery), the paginating CoreQuery.execute and the Report that merges *)
(* the pages.                                                              *)
(*                                                                         *)
(* Python objects live in two heaps: `queries` (Query instances, addressed *)
(* by their index) and `lists` (the list objects that raw['metrics'] and   *)
(* raw['dimensions'] refer to, addressed by their index).  A dict is a     *)
(* function whose DOMAIN is the set of keys present.                       *)
(***************************************************************************)
EXTENDS Integers, Sequences, FiniteSets, TLC

VARIABLES queries, lists, last, stack, requests, returned, total, catalog, calls, pages

vars == <<queries, lists, last, stack, requests, returned, total, catalog, calls, pages>>

(* ------------------------------ bounds --------------------------------- *)
MaxBuilt == 3
MaxDepth == 3
MaxCalls == 2
MaxSmallTotal == 3
MaxPages == 3

(* ------------------------- program constants --------------------------- *)
PRECISION_LEVELS == <<"FASTER", "DEFAULT", "HIGH_PRECISION">>
GRANULARITY_LEVELS == <<"year", "month", "week", "day", "hour">>
GRANULARITY_DIMENSIONS ==
  <<"ga:year", "ga:yearMonth", "ga:yearWeek", "ga:date", "ga:dateHour">>
DefaultPrecision == 1
DefaultMaxResults == 1000
EnoughThreshold == 1000

(* ------------------------- generic helpers ----------------------------- *)
Elems(s) == {s[i] : i \in DOMAIN s}

\* d[k] = v on a dict
DictSet(d, k, v) == (k :> v) @@ d

\* d.get(k, default)
DictGet(d, k, default) == IF k \in DOMAIN d THEN d[k] ELSE default

\* Python tuple indexing t[i]: 0-based, negative indices count from the end.
TupleIndexOk(t, i) == i >= -Len(t) /\ i < Len(t)
TupleIndex(t, i) == IF i >= 0 THEN t[i + 1] ELSE t[Len(t) + i + 1]

\* t.index(x) as a 0-based position (x is known to be in t)
IndexOf(t, x) == (CHOOSE i \in DOMAIN t : t[i] = x /\ \A j \in 1..(i-1) : t[j] /= x) - 1

\* list.insert(0, x)
InsertFront(l, x) == <<x>> \o l

\* a Python str built from parts (a str is not a list, even of one item)
Str(parts) == [str |-> parts]

\* ','.join(l): the items separated by commas, as one str
RECURSIVE JoinParts(_)
JoinParts(l) == IF Len(l) = 0 THEN <<>>
                ELSE IF Len(l) = 1 THEN <<l[1]>>
                ELSE <<l[1], ",">> \o JoinParts(Tail(l))

Join(l) == Str(JoinParts(l))

\* filter(pred, seq) keeping the order of seq
RECURSIVE FilterSeq(_, _)
FilterSeq(s, keep) == IF s = <<>> THEN <<>>
                      ELSE IF Head(s) \in keep THEN <<Head(s)>> \o FilterSeq(Tail(s), keep)
                      ELSE FilterSeq(Tail(s), keep)

(* ------------------- the account's column catalog ---------------------- *)
\* the orderings of account.columns the model draws from
Catalogs == { <<"ga:sessions", "ga:source">> \o GRANULARITY_DIMENSIONS,
              <<"ga:source", "ga:sessions">> \o GRANULARITY_DIMENSIONS }

\* a column argument: a name, or an account.Column handle
Name(n) == [isColumn |-> FALSE, id |-> n]
Column(n) == [isColumn |-> TRUE, id |-> n]

\* Query._normalize_column succeeds: columns[value] finds the name
CanNormalize(value) == value.isColumn \/ value.id \in Elems(catalog)

\* Query._serialize_column
SerializeColumn(value) == value.id

\* a metrics/dimensions argument: a list of column arguments or a bare one
ListArg(items) == [isList |-> TRUE, items |-> items]
BareArg(item) == [isList |-> FALSE, items |-> <<item>>]

\* Query._serialize_columns: a bare value is wrapped into a list first
CanSerializeColumns(values) == \A i \in DOMAIN values.items : CanNormalize(values.items[i])
SerializeColumns(values) == [i \in DOMAIN values.items |-> SerializeColumn(values.items[i])]

(* --------------------------- query objects ----------------------------- *)
QueryIds == 1..Len(queries)

\* the outcome of the last call made by the user
\* the receiver, the arguments, the query returned (NoResult if none), the
\* exception raised ("none" if none, "running" while the call is under way) and
\* what the exception's message lists
Outcome(op, self, args, result, error, msg) ==
  [op |-> op, self |-> self, args |-> args, result |-> result, error |-> error, msg |-> msg]

NoResult == 0

\* Query.clone: a new instance with a copy of meta and a shallow copy of raw
\* (the lists built by the new instance's own __init__ are dropped when raw
\* is replaced, so the clone refers to the receiver's list objects)
clone(q) == [raw |-> queries[q].raw, meta |-> queries[q].meta]

\* the raw parameters of q with the list objects read through
RawView(q) ==
  [k \in DOMAIN queries[q].raw |->
     IF k \in {"metrics", "dimensions"} THEN lists[queries[q].raw[k]]
     ELSE queries[q].raw[k]]

QueryView(q) == [raw |-> RawView(q), meta |-> queries[q].meta]

Idle == stack = <<>>

CanBuild == Idle /\ Len(queries) < MaxBuilt

(* ------------------------------- Init ---------------------------------- *)
InitMetrics == { <<"ga:sessions">> }
InitDimensions == { <<"ga:source">> }
Totals == (0..MaxSmallTotal) \cup {DefaultMaxResults + 1}

\* Query.__init__(profile, metrics, dimensions)
Init ==
  /\ catalog \in Catalogs
  /\ total \in Totals
  /\ \E m \in InitMetrics, d \in InitDimensions :
       /\ lists = <<m, d>>
       /\ queries = << [raw |-> [ids |-> "ga:profile", metrics |-> 1, dimensions |-> 2],
                        meta |-> <<>>] >>
  /\ last = Outcome("init", 1, <<>>, 1, "none", <<>>)
  /\ stack = <<>>
  /\ requests = <<>>
  /\ returned = <<>>
  /\ calls = 0
  /\ pages = <<>>

(* --------------------- arguments of the chain calls -------------------- *)
\* a Python value that is None, an int or a str
NoneArg == [kind |-> "none", i |-> 0, s |-> ""]
IntArg(i) == [kind |-> "int", i |-> i, s |-> ""]
StrArg(s) == [kind |-> "str", i |-> 0, s |-> s]

\* Python truth value: None, 0 and '' are false
Truthy(v) == \/ v.kind = "int" /\ v.i /= 0
             \/ v.kind = "str" /\ v.s /= ""

SpecifyMetrics == { ListArg(<<>>), BareArg(Name("ga:sessions")), ListArg(<<Name("ga:bogus")>>) }
SpecifyDimensions == { ListArg(<<>>), ListArg(<<Column("ga:source")>>),
                       ListArg(<<Name("ga:source"), Name("ga:bogus")>>) }
\* the (metrics, dimensions) pairs the constructor is called with
ConstructorArgs ==
  { <<BareArg(Name("ga:sessions")), ListArg(<<Column("ga:source")>>)>>,
    <<ListArg(<<Name("ga:bogus")>>), ListArg(<<>>)>>,
    <<BareArg(Name("ga:sessions")), ListArg(<<Name("ga:source"), Name("ga:bogus")>>)>> }
\* the (start, stop) pairs utils.daterange returns
DateRanges == { <<"2023-01-01", "2023-01-31">> }
Precisions == { IntArg(DefaultPrecision), IntArg(-1), IntArg(5), StrArg("BOGUS") }
Granularities == { NoneArg, IntArg(0), IntArg(1), IntArg(2), IntArg(3), IntArg(4),
                   IntArg(-1), IntArg(7), StrArg("hour"), StrArg("bogus") }
\* the (precision, granularity) pairs range is called with: each precision
\* without a granularity, each granularity with the default precision, and
\* two calls where both are given
RangeArgs == { <<p, NoneArg>> : p \in Precisions }
             \cup { <<IntArg(DefaultPrecision), g>> : g \in Granularities }
             \cup { <<IntArg(-1), IntArg(-1)>>, <<StrArg("BOGUS"), StrArg("bogus")>> }
WrapperPrecisions == { IntArg(DefaultPrecision), IntArg(5) }
StepMaxima == { 1, 2 }
LimitRanges == { <<1>>, <<2>>, <<EnoughThreshold>>, <<2, 2>> }
NextStarts == { NoneArg, IntArg(0), IntArg(3) }

(* ------------------------- Query / CoreQuery --------------------------- *)
NewId == Len(queries) + 1

\* utils.immutable: the wrapped method runs on self.clone() and the clone is
\* returned; `obj` is the clone after the method body ran on it, `ls` the
\* list heap after it
Immutable(op, q, args, obj, ls) ==
  /\ queries' = Append(queries, obj)
  /\ lists' = ls
  /\ last' = Outcome(op, q, args, NewId, "none", <<>>)

\* the wrapped method raised: the clone is dropped and the error propagates
Raises(op, q, args, error, msg) ==
  /\ last' = Outcome(op, q, args, NoResult, error, msg)
  /\ UNCHANGED <<queries, lists>>

\* Query._specify on the object obj: both arguments are serialized, then the
\* list objects that obj.raw refers to are extended in place
SpecifyLists(obj, metrics, dimensions) ==
  [lists EXCEPT ![obj.raw.metrics] = @ \o SerializeColumns(metrics),
                ![obj.raw.dimensions] = @ \o SerializeColumns(dimensions)]

\* Query(profile, metrics, dimensions): __init__ starts from a raw dict that
\* holds only ids and calls _specify, whose setdefault makes two new lists
Query(metrics, dimensions) ==
  /\ CanBuild
  /\ IF CanSerializeColumns(metrics) /\ CanSerializeColumns(dimensions)
     THEN /\ lists' = lists \o <<SerializeColumns(metrics), SerializeColumns(dimensions)>>
          /\ queries' = Append(queries, [raw |-> [ids |-> "ga:profile",
                                                  metrics |-> Len(lists) + 1,
                                                  dimensions |-> Len(lists) + 2],
                                         meta |-> <<>>])
          /\ last' = Outcome("Query", NoResult, <<metrics, dimensions>>, NewId, "none", <<>>)
     ELSE Raises("Query", NoResult, <<metrics, dimensions>>, "KeyError", <<>>)
  /\ UNCHANGED <<stack, requests, returned, total, catalog, pages, calls>>

\* a _specify that extends the metrics before it serializes the dimensions
specifyEager(q, metrics, dimensions) ==
  /\ CanBuild
  /\ IF CanSerializeColumns(metrics) /\ CanSerializeColumns(dimensions)
     THEN Immutable("specify", q, <<metrics, dimensions>>, clone(q), SpecifyLists(clone(q), metrics, dimensions))
     ELSE /\ last' = Outcome("specify", q, <<metrics, dimensions>>, NoResult, "KeyError", <<>>)
          /\ queries' = queries
          /\ lists' = IF CanSerializeColumns(metrics)
                      THEN [lists EXCEPT ![queries[q].raw.metrics] = @ \o SerializeColumns(metrics)]
                      ELSE lists
  /\ UNCHANGED <<stack, requests, returned, total, catalog, pages, calls>>

\* Query.specify
specify(q, metrics, dimensions) ==
  /\ CanBuild
  /\ IF CanSerializeColumns(metrics) /\ CanSerializeColumns(dimensions)
     THEN Immutable("specify", q, <<metrics, dimensions>>, clone(q), SpecifyLists(clone(q), metrics, dimensions))
     ELSE Raises("specify", q, <<metrics, dimensions>>, "KeyError", <<>>)
  /\ UNCHANGED <<stack, requests, returned, total, catalog, pages, calls>>

\* Query.sort and Query.filter: the body is `pass`
sort(q) ==
  /\ CanBuild
  /\ Immutable("sort", q, <<>>, clone(q), lists)
  /\ UNCHANGED <<stack, requests, returned, total, catalog, pages, calls>>

filter(q) ==
  /\ CanBuild
  /\ Immutable("filter", q, <<>>, clone(q), lists)
  /\ UNCHANGED <<stack, requests, returned, total, catalog, pages, calls>>

\* Query.clone called directly
Clone(q) ==
  /\ CanBuild
  /\ Immutable("clone", q, <<>>, clone(q), lists)
  /\ UNCHANGED <<stack, requests, returned, total, catalog, pages, calls>>

\* CoreQuery.range, lines 120-121: an int precision indexes PRECISION_LEVELS
PrecisionIndexOk(precision) ==
  precision.kind /= "int" \/ TupleIndexOk(PRECISION_LEVELS, precision.i)

PrecisionToken(precision) ==
  IF precision.kind = "int" THEN TupleIndex(PRECISION_LEVELS, precision.i)
  ELSE precision.s

\* CoreQuery.range, lines 130-132: a granularity that is not an int is looked
\* up in GRANULARITY_LEVELS
GranularityIndex(granularity) ==
  IF granularity.kind = "int" THEN granularity.i
  ELSE IndexOf(GRANULARITY_LEVELS, granularity.s)

\* the exception CoreQuery.range raises for these arguments, "none" if none
RangeError(precision, granularity) ==
  IF ~PrecisionIndexOk(precision) THEN "IndexError"
  ELSE IF PrecisionToken(precision) \notin Elems(PRECISION_LEVELS) THEN "ValueError"
  ELSE IF ~Truthy(granularity) THEN "none"
  ELSE IF granularity.kind /= "int" /\ granularity.s \notin Elems(GRANULARITY_LEVELS)
       THEN "NameError"
  ELSE IF ~TupleIndexOk(GRANULARITY_DIMENSIONS, GranularityIndex(granularity))
       THEN "IndexError"
  ELSE "none"

\* what the message of that exception lists
RangeErrorMessage(precision, granularity) ==
  IF RangeError(precision, granularity) = "ValueError" THEN PRECISION_LEVELS ELSE <<>>

\* the clone's raw dict after the body of range ran on it
RangeRaw(obj, dates, precision) ==
  DictSet(DictSet(DictSet(obj.raw, "start_date", dates[1]), "end_date", dates[2]),
          "samplingLevel", PrecisionToken(precision))

\* lines 129-138: the granularity dimension is inserted in place into the
\* list object that raw['dimensions'] refers to
RangeLists(obj, granularity) ==
  IF Truthy(granularity)
  THEN [lists EXCEPT ![obj.raw.dimensions] =
          InsertFront(@, TupleIndex(GRANULARITY_DIMENSIONS, GranularityIndex(granularity)))]
  ELSE lists

RangeCall(op, q, dates, precision, granularity) ==
  /\ CanBuild
  /\ IF RangeError(precision, granularity) = "none"
     THEN Immutable(op, q, <<dates, precision, granularity>>, [clone(q) EXCEPT !.raw = RangeRaw(clone(q), dates, precision)],
                    RangeLists(clone(q), granularity))
     ELSE Raises(op, q, <<dates, precision, granularity>>, RangeError(precision, granularity),
                 RangeErrorMessage(precision, granularity))
  /\ UNCHANGED <<stack, requests, returned, total, catalog, pages, calls>>

\* CoreQuery.range
range(q, dates, precision, granularity) == RangeCall("range", q, dates, precision, granularity)

\* CoreQuery.hours/days/weeks/months/years: range with a fixed granularity
hours(q, dates, precision) == RangeCall("hours", q, dates, precision, StrArg("hour"))
days(q, dates, precision) == RangeCall("days", q, dates, precision, StrArg("day"))
weeks(q, dates, precision) == RangeCall("weeks", q, dates, precision, StrArg("week"))
months(q, dates, precision) == RangeCall("months", q, dates, precision, StrArg("month"))
years(q, dates, precision) == RangeCall("years", q, dates, precision, StrArg("year"))

\* CoreQuery.step
step(q, maximum) ==
  /\ CanBuild
  /\ Immutable("step", q, <<maximum>>, [clone(q) EXCEPT !.raw = DictSet(@, "max_results", maximum)], lists)
  /\ UNCHANGED <<stack, requests, returned, total, catalog, pages, calls>>

\* CoreQuery.limit: _range holds one or two positional arguments
LimitStart(_range) == IF Len(_range) = 2 THEN _range[1] ELSE 1
LimitMaximum(_range) == IF Len(_range) = 2 THEN _range[2] ELSE _range[1]

limit(q, _range) ==
  /\ CanBuild
  /\ Immutable("limit", q, _range,
               [raw |-> DictSet(DictSet(clone(q).raw, "start_index", LimitStart(_range)),
                                "max_results", LimitMaximum(_range)),
                meta |-> DictSet(clone(q).meta, "limit", LimitMaximum(_range))],
               lists)
  /\ UNCHANGED <<stack, requests, returned, total, catalog, pages, calls>>

\* the body of CoreQuery.next run on the object obj
NextRaw(obj, start) ==
  DictSet(obj.raw, "start_index",
          IF ~Truthy(start) THEN DictGet(obj.raw, "max_results", DefaultMaxResults) + 1
          ELSE start.i)

\* CoreQuery.next
next(q, start) ==
  /\ CanBuild
  /\ Immutable("next", q, <<start>>, [clone(q) EXCEPT !.raw = NextRaw(clone(q), start)], lists)
  /\ UNCHANGED <<stack, requests, returned, total, catalog, pages, calls>>

\* the chain operations
Build ==
  \/ \E a \in ConstructorArgs : Query(a[1], a[2])
  \/ \E q \in QueryIds, m \in SpecifyMetrics, d \in SpecifyDimensions : specify(q, m, d)
  \/ \E q \in QueryIds : sort(q)
  \/ \E q \in QueryIds : filter(q)
  \/ \E q \in QueryIds : Clone(q)
  \/ \E q \in QueryIds, dr \in DateRanges, a \in RangeArgs : range(q, dr, a[1], a[2])
  \/ \E q \in QueryIds, dr \in DateRanges, p \in WrapperPrecisions : hours(q, dr, p)
  \/ \E q \in QueryIds, dr \in DateRanges, p \in WrapperPrecisions : days(q, dr, p)
  \/ \E q \in QueryIds, dr \in DateRanges, p \in WrapperPrecisions : weeks(q, dr, p)
  \/ \E q \in QueryIds, dr \in DateRanges, p \in WrapperPrecisions : months(q, dr, p)
  \/ \E q \in QueryIds, dr \in DateRanges, p \in WrapperPrecisions : years(q, dr, p)
  \/ \E q \in QueryIds, m \in StepMaxima : step(q, m)
  \/ \E q \in QueryIds, r \in LimitRanges : limit(q, r)
  \/ \E q \in QueryIds, s \in NextStarts : next(q, s)

\* the chain operations take no part in the transport or the catalog's order
InitBuild == Init /\ total = 0 /\ catalog = <<"ga:sessions", "ga:source">> \o GRANULARITY_DIMENSIONS

SpecBuild == InitBuild /\ [][Build]_vars

(* ------------------------------ transport ------------------------------ *)
\* The service holds a report of `total` rows, numbered from 1.  The value in
\* column c of row r is <<c, r>>.  A request is answered with the rows from
\* start_index on, at most max_results of them, under the requested
\* dimensions followed by the requested metrics; nextLink is present when rows
\* remain after the page.

\* the ids in a comma-joined string
Split(joined) == FilterSeq(joined.str, Elems(joined.str) \ {","})

Min(a, b) == IF a <= b THEN a ELSE b

RequestStart(params) == DictGet(params, "start_index", 1)
RequestEnd(params) ==
  Min(RequestStart(params) + DictGet(params, "max_results", DefaultMaxResults) - 1, total)
RequestColumns(params) == Split(params.dimensions) \o Split(params.metrics)

\* a page's rows, kept as blocks of consecutive row numbers under the page's
\* column order; RowsOf gives the list of row tuples they stand for
PageRows(params) ==
  IF RequestStart(params) <= RequestEnd(params)
  THEN << [lo |-> RequestStart(params), hi |-> RequestEnd(params),
           cols |-> RequestColumns(params)] >>
  ELSE <<>>

BlockRows(b) == [k \in 1..(b.hi - b.lo + 1) |->
                   [j \in 1..Len(b.cols) |-> <<b.cols[j], b.lo + k - 1>>]]

RECURSIVE RowsOf(_)
RowsOf(blocks) == IF blocks = <<>> THEN <<>>
                  ELSE BlockRows(Head(blocks)) \o RowsOf(Tail(blocks))

Transport(params) ==
  LET page == [columnHeaders |-> [j \in DOMAIN RequestColumns(params) |->
                                    [name |-> RequestColumns(params)[j]]],
               rows |-> PageRows(params)]
  IN IF RequestEnd(params) < total /\ RequestStart(params) <= total
     THEN DictSet(page, "nextLink", "next")
     ELSE page

(* -------------------------------- Report ------------------------------- *)
\* an append that works the headers out again from the page it is given
ReportAppendReheads(report, raw, query) ==
  [report EXCEPT !.queries = Append(@, query),
                 !.rows = @ \o raw.rows,
                 !.headers = FilterSeq(catalog, {raw.columnHeaders[j].name : j \in DOMAIN raw.columnHeaders}),
                 !.is_complete = ~("nextLink" \in DOMAIN raw)]

\* an append that never takes completeness back
ReportAppendSticky(report, raw, query) ==
  [report EXCEPT !.queries = Append(@, query),
                 !.rows = @ \o raw.rows,
                 !.is_complete = @ \/ ~("nextLink" \in DOMAIN raw)]

\* an append that keeps only the rows of the page it is given
ReportAppendReplaces(report, raw, query) ==
  [report EXCEPT !.queries = Append(@, query),
                 !.rows = raw.rows,
                 !.is_complete = ~("nextLink" \in DOMAIN raw)]

\* an append that does not record the query
ReportAppendNoQuery(report, raw, query) ==
  [report EXCEPT !.rows = @ \o raw.rows,
                 !.is_complete = ~("nextLink" \in DOMAIN raw)]

\* Report.append
ReportAppend(report, raw, query) ==
  [report EXCEPT !.queries = Append(@, query),
                 !.rows = @ \o raw.rows,
                 !.is_complete = ~("nextLink" \in DOMAIN raw)]

\* Report.__init__: the headers are the catalog's columns whose id the
\* response declares, in the catalog's order
ReportHeaders(raw) ==
  FilterSeq(catalog, {raw.columnHeaders[j].name : j \in DOMAIN raw.columnHeaders})

ReportInit(raw, query) ==
  ReportAppend([raw |-> raw, queries |-> <<>>, headers |-> ReportHeaders(raw),
                rows |-> <<>>, is_complete |-> FALSE],
               raw, query)

\* Report.__getitem__ for a key among the headers
GetItem(report, key) ==
  LET i == IndexOf(report.headers, key)
      rows == RowsOf(report.rows)
  IN [r \in DOMAIN rows |-> rows[r][i + 1]]

\* a message that leaves the key out
GetItemMessageBare(key) == <<" not in column headers">>

\* key + " not in column headers"
GetItemMessage(key) == <<key, " not in column headers">>

\* what Report.__getitem__ raises: the ValueError of headers.index(key) is
\* caught and raised again with the message; a row too short for the position
\* raises an IndexError that is not caught
GetItemError(report, key) ==
  IF key \notin Elems(report.headers) THEN "ValueError"
  ELSE LET i == IndexOf(report.headers, key)
           rows == RowsOf(report.rows)
       IN IF \E r \in DOMAIN rows : Len(rows[r]) < i + 1 THEN "IndexError" ELSE "none"

\* Report.__len__
ReportLen(report) == Len(RowsOf(report.rows))

\* one entry of `requests`: the call of the user it belongs to (its number and
\* whether the user called execute, len or iter), the query whose execute
\* issued it, the parameters sent and whether the service call failed
(* --------------------------- CoreQuery.execute ------------------------- *)
Frame(fn, q) == [fn |-> fn, self |-> q, pc |-> "start"]
Top == stack[Len(stack)]
Below == stack[Len(stack) - 1]
Pop == SubSeq(stack, 1, Len(stack) - 1)

\* lines 205-207: a copy of raw with the two lists joined
RequestParams(q) ==
  DictSet(DictSet(queries[q].raw, "metrics", Join(lists[queries[q].raw.metrics])),
          "dimensions", Join(lists[queries[q].raw.dimensions]))

\* self.meta.get('limit', float('inf')) < 1000
LimitBelowThreshold(q) ==
  "limit" \in DOMAIN queries[q].meta /\ queries[q].meta.limit < EnoughThreshold

\* len(report.rows) >= self.meta.get('limit', float('inf'))
LimitReached(q, report) ==
  "limit" \in DOMAIN queries[q].meta /\ Len(RowsOf(report.rows)) >= queries[q].meta.limit

\* hasattr(self, 'report')
HasReport(q) == "report" \in DOMAIN queries[q]

\* the page sizes and row limits of the queries a user fetches
FetchStepMaxima == { 1, 2 }
FetchLimitRanges == { <<2>>, <<EnoughThreshold>>, <<2, 2>> }

\* a user fetches one query, once or several times
CanFetch(q) == Idle /\ calls < MaxCalls /\ (calls = 0 \/ q = last.self)

\* a user calls query.execute()
execute(q) ==
  /\ CanFetch(q)
  /\ stack' = << Frame("execute", q) >>
  /\ calls' = calls + 1
  /\ last' = Outcome("execute", q, <<>>, NoResult, "running", <<>>)
  /\ UNCHANGED <<queries, lists, requests, returned, total, catalog, pages>>

\* the entry of `requests` for the request query q's execute issues now
Request(q, failed) ==
  [call |-> calls, via |-> stack[1].fn, query |-> q, params |-> RequestParams(q),
   failed |-> failed]

\* lines 205-213: the request for the query's own page, and the report built
\* from the response
Fetch ==
  /\ ~Idle /\ Top.fn = "execute" /\ Top.pc = "start"
  /\ requests' = Append(requests, Request(Top.self, FALSE))
  /\ stack' = Append(Pop, [fn |-> "execute", self |-> Top.self, pc |-> "loop",
                           is_enough |-> LimitBelowThreshold(Top.self),
                           report |-> ReportInit(Transport(RequestParams(Top.self)), Top.self)])
  /\ UNCHANGED <<queries, lists, last, returned, total, catalog, pages, calls>>

\* an execute that catches the service's error and asks again
FetchRetries ==
  /\ ~Idle /\ Top.fn = "execute" /\ Top.pc = "start"
  /\ Len(requests) < MaxDepth + 2
  /\ requests' = Append(requests, Request(Top.self, TRUE))
  /\ UNCHANGED <<stack, last, queries, lists, returned, total, catalog, pages, calls>>

\* line 210 raises: the service call fails, and with no handler in execute,
\* __len__ or __iter__ the error unwinds every frame and reaches the user
FetchFails ==
  /\ ~Idle /\ Top.fn = "execute" /\ Top.pc = "start"
  /\ requests' = Append(requests, Request(Top.self, TRUE))
  /\ stack' = <<>>
  /\ last' = Outcome(stack[1].fn, stack[1].self, <<>>, NoResult, "TransportError", <<>>)
  /\ UNCHANGED <<queries, lists, returned, total, catalog, pages, calls>>

Continue == ~Idle /\ Top.fn = "execute" /\ Top.pc = "loop"
            /\ ~(Top.is_enough \/ Top.report.is_complete)

Stop == ~Idle /\ Top.fn = "execute" /\ Top.pc = "loop"
        /\ (Top.is_enough \/ Top.report.is_complete)

\* a loop that moves the query's own start_index on and executes it again
LoopNextInPlace ==
  /\ Continue /\ Len(stack) < MaxDepth
  /\ queries' = [queries EXCEPT ![Top.self].raw = NextRaw(queries[Top.self], NoneArg)]
  /\ stack' = Append(Append(Pop, ("next_query" :> Top.self) @@ [Top EXCEPT !.pc = "wait"]),
                     Frame("execute", Top.self))
  /\ UNCHANGED <<lists, last, requests, returned, total, catalog, pages, calls>>

\* lines 214-216: next_query = self.next(), then next_query.execute() is called
LoopNext ==
  /\ Continue /\ Len(stack) < MaxDepth
  /\ queries' = Append(queries, [clone(Top.self) EXCEPT !.raw = NextRaw(clone(Top.self), NoneArg)])
  /\ stack' = Append(Append(Pop, ("next_query" :> NewId) @@ [Top EXCEPT !.pc = "wait"]),
                     Frame("execute", NewId))
  /\ UNCHANGED <<lists, last, requests, returned, total, catalog, pages, calls>>

\* the nested calls reach the interpreter's recursion limit: the error unwinds
\* every frame and reaches the user
RecursionLimit ==
  /\ Continue /\ Len(stack) >= MaxDepth
  /\ stack' = <<>>
  /\ last' = Outcome(stack[1].fn, stack[1].self, <<>>, NoResult, "RecursionError", <<>>)
  /\ UNCHANGED <<queries, lists, requests, returned, total, catalog, pages, calls>>

\* line 220 in the nested call, then lines 217-218 in the caller
ReturnToLoop ==
  /\ Stop /\ Len(stack) > 1 /\ Below.fn = "execute"
  /\ stack' = Append(SubSeq(stack, 1, Len(stack) - 2),
       [Below EXCEPT !.pc = "loop",
                     !.report = ReportAppend(@, Top.report.raw, Below.next_query),
                     !.is_enough = LimitReached(Below.self,
                                     ReportAppend(Below.report, Top.report.raw, Below.next_query))])
  /\ UNCHANGED <<queries, lists, last, requests, returned, total, catalog, pages, calls>>

\* line 220 in the call the user made
ReturnToUser ==
  /\ Stop /\ Len(stack) = 1
  /\ stack' = <<>>
  /\ returned' = Append(returned, Top.report)
  /\ last' = Outcome("execute", Top.self, <<>>, NoResult, "none", <<>>)
  /\ UNCHANGED <<queries, lists, requests, total, catalog, pages, calls>>

\* CoreQuery.__len__ / CoreQuery.__iter__ called by a user: without a `report`
\* attribute the query is executed first
Accessor(fn, q) ==
  /\ CanFetch(q)
  /\ calls' = calls + 1
  /\ IF HasReport(q)
     THEN /\ stack' = <<>>
          /\ last' = Outcome(fn, q, <<>>, NoResult, IF fn = "len" THEN "none" ELSE "NotImplementedError", <<>>)
     ELSE /\ stack' = << [fn |-> fn, self |-> q, pc |-> "wait"], Frame("execute", q) >>
          /\ last' = Outcome(fn, q, <<>>, NoResult, "running", <<>>)
  /\ UNCHANGED <<queries, lists, requests, returned, total, catalog, pages>>

len(q) == Accessor("len", q)
iter(q) == Accessor("iter", q)

\* self.execute() returned into __len__ / __iter__ (its result is dropped),
\* which then reads self.report
ReturnToAccessor ==
  /\ Stop /\ Len(stack) > 1 /\ Below.fn /= "execute"
  /\ stack' = <<>>
  /\ last' = Outcome(Below.fn, Below.self, <<>>, NoResult,
                     IF ~HasReport(Below.self) THEN "AttributeError"
                     ELSE IF Below.fn = "len" THEN "none" ELSE "NotImplementedError", <<>>)
  /\ UNCHANGED <<queries, lists, requests, returned, total, catalog, pages, calls>>

\* a user sets the page size and the row limit before fetching, then calls
\* execute, len or iter
Next ==
  \/ \E q \in QueryIds, m \in FetchStepMaxima : calls = 0 /\ step(q, m)
  \/ \E q \in QueryIds, r \in FetchLimitRanges : calls = 0 /\ limit(q, r)
  \/ \E q \in QueryIds : execute(q)
  \/ \E q \in QueryIds : len(q)
  \/ \E q \in QueryIds : iter(q)
  \/ Fetch
  \/ FetchFails
  \/ LoopNext
  \/ RecursionLimit
  \/ ReturnToLoop
  \/ ReturnToUser
  \/ ReturnToAccessor

Spec == Init /\ [][Next]_vars

(* ----------------------- a Report built page by page ------------------- *)
\* the pages a Report is given: the columns a page declares, the row numbers
\* it carries (none, or lo..hi) and whether it has a nextLink
PageColumns == { <<"ga:source", "ga:sessions">>, <<"ga:sessions">> }
PageRanges == { <<>>, <<1, 1>>, <<2, 3>> }

Page(cols, span, more) ==
  LET page == [columnHeaders |-> [j \in DOMAIN cols |-> [name |-> cols[j]]],
               rows |-> IF span = <<>> THEN <<>>
                        ELSE << [lo |-> span[1], hi |-> span[2], cols |-> cols] >>]
  IN IF more THEN DictSet(page, "nextLink", "next") ELSE page

Pages == { Page(cols, span, more) : cols \in PageColumns, span \in PageRanges,
                                     more \in BOOLEAN }

\* the column names a report is asked for
Keys == { "ga:sessions", "ga:source", "ga:bogus" }

\* the report the user holds
TheReport == returned[1]

\* Report(raw, query)
Report(raw, q) ==
  /\ Idle /\ returned = <<>>
  /\ returned' = << ReportInit(raw, q) >>
  /\ pages' = << raw >>
  /\ last' = Outcome("Report", q, <<raw>>, NoResult, "none", <<>>)
  /\ UNCHANGED <<queries, lists, stack, requests, total, catalog, calls>>

\* report.append(raw, query)
append(raw, q) ==
  /\ Idle /\ returned /= <<>> /\ Len(pages) < MaxPages
  /\ returned' = << ReportAppend(TheReport, raw, q) >>
  /\ pages' = Append(pages, raw)
  /\ last' = Outcome("append", q, <<raw>>, NoResult, "none", <<>>)
  /\ UNCHANGED <<queries, lists, stack, requests, total, catalog, calls>>

\* report[key]
getitem(key) ==
  /\ Idle /\ returned /= <<>>
  /\ last' = IF GetItemError(TheReport, key) = "none"
             THEN Outcome("getitem", NoResult, <<key>>, GetItem(TheReport, key), "none", <<>>)
             ELSE Outcome("getitem", NoResult, <<key>>, NoResult, GetItemError(TheReport, key),
                          IF GetItemError(TheReport, key) = "ValueError"
                          THEN GetItemMessage(key) ELSE <<>>)
  /\ UNCHANGED <<queries, lists, stack, requests, returned, total, catalog, calls, pages>>

\* len(report)
reportLen ==
  /\ Idle /\ returned /= <<>>
  /\ last' = Outcome("report_len", NoResult, <<>>, ReportLen(TheReport), "none", <<>>)
  /\ UNCHANGED <<queries, lists, stack, requests, returned, total, catalog, calls, pages>>

NextReport ==
  \/ \E raw \in Pages, q \in QueryIds : Report(raw, q)
  \/ \E raw \in Pages, q \in QueryIds : append(raw, q)
  \/ \E key \in Keys : getitem(key)
  \/ reportLen

InitReport == Init /\ total = 0

SpecReport == InitReport /\ [][NextReport]_vars

(* ------------------------------- claims -------------------------------- *)
ChainOps == {"specify", "range", "hours", "days", "weeks", "months", "years",
             "step", "limit", "next", "sort", "filter", "clone"}

\* C1: a chain operation (or clone) returns a new query object and leaves the
\* raw parameters, read through to the contents of the metrics and dimensions
\* lists, and the meta of every query that existed before the call unchanged.
C1_ChainLeavesQueriesUnchanged ==
  [][ /\ \A q \in QueryIds : QueryView(q)' = QueryView(q)
      /\ (last' /= last /\ last'.op \in ChainOps /\ last'.error = "none")
           => last'.result \notin QueryIds ]_vars

\* the rows the service holds from row number `from` on, under the columns of
\* query q's request
RowsFrom(q, from) ==
  IF from <= total
  THEN BlockRows([lo |-> from, hi |-> total, cols |-> RequestColumns(RequestParams(q))])
  ELSE <<>>

NoLimit(q) == ~("limit" \in DOMAIN queries[q].meta)

Finished(op) == Idle /\ last.op = op /\ last.error /= "running"

\* C2: an execute of a query with no row limit ends by returning a report
\* whose rows are all the rows of the pages, in page order, and whose
\* is_complete is true, however many pages the rows are served in.
C2_ExecuteMergesAllPages ==
  (Finished("execute") /\ NoLimit(last.self))
    => /\ last.error = "none"
       /\ returned[Len(returned)].is_complete
       /\ RowsOf(returned[Len(returned)].rows)
            = RowsFrom(last.self, RequestStart(RequestParams(last.self)))

\* C3: every call of execute returns, whatever the number of pages and
\* whatever meta.limit is: it is under way, with a frame on the stack, or it has
\* returned its report.  (The nesting of the calls is bounded by the
\* interpreter, so a call that does not return ends in RecursionError.)
C3_ExecuteReturns ==
  last.op = "execute"
    => \/ last.error = "running" /\ ~Idle
       \/ last.error = "none" /\ Idle /\ returned /= <<>>

\* C4: no transport request is issued while an execute under way already
\* holds at least meta.limit rows.
C4_LimitShortCircuit ==
  [][ requests' /= requests
        => \A i \in DOMAIN stack :
             "report" \in DOMAIN stack[i] => ~LimitReached(stack[i].self, stack[i].report) ]_vars

\* C5: a report that execute returns is complete or holds at least meta.limit
\* rows of the query it was called on.
C5_StopConditionOnReturn ==
  \A i \in DOMAIN returned :
    returned[i].is_complete \/ LimitReached(returned[i].queries[1], returned[i])

\* C6: when len or iter has run on a query the report is attached to the query
\* and the accessor delegated to it, and the accessors of one query caused at
\* most one transport request for that query.
C6_LazyExecuteOnce ==
  /\ (Finished("len") \/ Finished("iter"))
       => (HasReport(last.self) /\ last.error /= "AttributeError")
  /\ \A q \in QueryIds :
       Cardinality({i \in DOMAIN requests :
                      requests[i].via \in {"len", "iter"} /\ requests[i].query = q}) <= 1

\* the 0-based position of the column named c in the response's columnHeaders
HeaderPosition(raw, c) ==
  IndexOf([j \in DOMAIN raw.columnHeaders |-> raw.columnHeaders[j].name], c)

\* C7: for every column c the response declares, report[c] is, row by row, the
\* value at c's position in columnHeaders.
C7_ColumnsParallelToHeaders ==
  \A i \in DOMAIN returned :
    \A j \in DOMAIN returned[i].raw.columnHeaders :
      LET c == returned[i].raw.columnHeaders[j].name
          rows == RowsOf(returned[i].rows)
          p == HeaderPosition(returned[i].raw, c)
      IN GetItem(returned[i], c) = [r \in DOMAIN rows |-> rows[r][p + 1]]

InvalidPrecision(p) ==
  \/ p.kind = "int" /\ p.i \notin 0..(Len(PRECISION_LEVELS) - 1)
  \/ p.kind = "str" /\ p.s \notin Elems(PRECISION_LEVELS)

\* C8: range with a precision that is no valid name and no index in 0..2 fails
\* with a ValueError whose message lists exactly the three precision levels.
C8_InvalidPrecisionRejected ==
  (last.op = "range" /\ InvalidPrecision(last.args[2]))
    => (last.error = "ValueError" /\ last.msg = PRECISION_LEVELS)

\* a granularity level given by name or by index 0..4, as its index
IsLevel(g) ==
  \/ g.kind = "int" /\ g.i \in 0..(Len(GRANULARITY_LEVELS) - 1)
  \/ g.kind = "str" /\ g.s \in Elems(GRANULARITY_LEVELS)

\* C9: range with one of the five granularity levels, by name or by index,
\* returns a query whose dimensions are the level's dimension followed by the
\* receiver's dimensions as they were before the call.
C9_GranularityDimensionFirst ==
  [][ (last' /= last /\ last'.op = "range" /\ ~InvalidPrecision(last'.args[2])
         /\ IsLevel(last'.args[3]))
        => /\ last'.error = "none"
           /\ lists'[queries'[last'.result].raw.dimensions]
                = <<GRANULARITY_DIMENSIONS[GranularityIndex(last'.args[3]) + 1]>>
                    \o lists[queries[last'.self].raw.dimensions] ]_vars

InvalidGranularity(g) == g.kind /= "none" /\ ~IsLevel(g)

\* C10: range with a granularity that is no level name and no index in 0..4
\* fails with a ValueError whose message lists the granularity levels.
C10_InvalidGranularityRejected ==
  (last.op = "range" /\ ~InvalidPrecision(last.args[2]) /\ InvalidGranularity(last.args[3]))
    => (last.error = "ValueError" /\ last.msg = GRANULARITY_LEVELS)

(* ---- C11: column resolution is all-or-nothing ---- *)
\* some column among the metrics and dimensions of a call is not in the catalog
AbsentColumn(args) ==
  \E a \in {1, 2} : \E i \in DOMAIN args[a].items : args[a].items[i].id \notin Elems(catalog)

FailedRequestEndsCall(i) ==
  /\ \A j \in DOMAIN requests : j > i => requests[j].call /= requests[i].call
  /\ requests[i].call = calls =>
       /\ Idle
       /\ last.op = requests[i].via
       /\ last.error = "TransportError"
       /\ last.result = NoResult

\* C12: when the transport fails on a page request (the first page or a
\* follow-up page) the call fails with the transport's error, no request of
\* that call follows the failed one, and the failing step returns no report
C12_TransportFailurePropagates ==
  [][/\ \A i \in DOMAIN requests' : requests'[i].failed => FailedRequestEndsCall(i)'
     /\ (Len(requests') > Len(requests) /\ requests'[Len(requests')].failed)
          => returned' = returned]_vars

\* the transport failed on a follow-up page, after a page was served
C12_Witness ==
  \E i \in DOMAIN requests :
    /\ i > 1 /\ requests[i].failed
    /\ requests[i - 1].call = requests[i].call /\ ~requests[i - 1].failed
    /\ Idle /\ last.error = "TransportError"

(* ---- C13: the headers are those of the first page ---- *)
\* the column ids a page declares
Declared(raw) == {raw.columnHeaders[j].name : j \in DOMAIN raw.columnHeaders}

\* C13: report.headers holds the catalog's columns that the first page
\* declares, and no append changes it, whatever the appended page declares
C13_HeadersFromFirstPage ==
  [][returned' /= <<>> =>
       /\ Elems(TheReport'.headers) = Declared(pages'[1]) \cap Elems(catalog)
       /\ returned /= <<>> => TheReport'.headers = TheReport.headers]_vars

\* a page that declares other columns than the first was appended
C13_Witness ==
  /\ last.op = "append" /\ Len(pages) >= 2
  /\ Declared(pages[Len(pages)]) /= Declared(pages[1])
  /\ Len(TheReport.queries) = Len(pages)

(* ---- C14: is_complete follows the last page ---- *)
\* C14: after construction and after every append, report.is_complete is true
\* exactly when the page ingested last has no nextLink
C14_CompleteFollowsLastPage ==
  returned /= <<>> /\ pages /= <<>> =>
    (TheReport.is_complete <=> "nextLink" \notin DOMAIN pages[Len(pages)])

\* is_complete went from true back to false
C14_Witness ==
  /\ Len(pages) >= 2
  /\ "nextLink" \notin DOMAIN pages[1]
  /\ "nextLink" \in DOMAIN pages[Len(pages)]
  /\ ~TheReport.is_complete

(* ---- C15: the rows of a report are the rows of its pages, in order ---- *)
RECURSIVE AllRows(_)
AllRows(ps) == IF ps = <<>> THEN <<>> ELSE RowsOf(Head(ps).rows) \o AllRows(Tail(ps))

RECURSIVE RowCount(_)
RowCount(ps) == IF ps = <<>> THEN 0 ELSE Len(RowsOf(Head(ps).rows)) + RowCount(Tail(ps))

\* C15: len(report) is len(report.rows), which is the sum of the row counts of
\* the ingested pages, and the rows are those of the pages in the order the
\* pages were ingested, so an append leaves the rows before it in place
C15_RowsAreThePagesRows ==
  returned /= <<>> /\ pages /= <<>> =>
    /\ ReportLen(TheReport) = Len(RowsOf(TheReport.rows))
    /\ Len(RowsOf(TheReport.rows)) = RowCount(pages)
    /\ RowsOf(TheReport.rows) = AllRows(pages)
    /\ last.op = "report_len" => last.result = RowCount(pages)

\* len(report) was taken after three pages, two of them with rows
C15_Witness ==
  /\ last.op = "report_len" /\ Len(pages) = 3
  /\ pages[1].rows /= <<>> /\ pages[2].rows = <<>> /\ pages[3].rows /= <<>>
  /\ last.result = RowCount(pages) /\ last.result >= 2

(* ---- C17: report[name] for a name that is not a header ---- *)
\* C17: report[name] for a name that is not among report.headers raises the
\* error that names the missing column (a ValueError whose message starts with
\* the name) and leaves the report as it was
C17_MissingColumnRaises ==
  [][(last' /= last /\ last'.op = "getitem" /\ last'.args[1] \notin Elems(TheReport.headers))
       => /\ last'.error = "ValueError"
          /\ last'.msg /= <<>> /\ last'.msg[1] = last'.args[1]
          /\ returned' = returned]_vars

\* a report of several pages was asked for a column that no page declared
C17_Witness ==
  /\ last.op = "getitem" /\ last.args = <<"ga:bogus">>
  /\ last.error = "ValueError"
  /\ Len(pages) >= 2 /\ ReportLen(TheReport) >= 1

(* ---- C16: report.queries has one query per page, in fetch order ---- *)
\* the requests issued during the user's call number c, in order
CallRequests(c) == FilterSeq(requests, {r \in Elems(requests) : r.call = c})

\* the rows the transport served for a sequence of requests, as blocks
RECURSIVE ServedRows(_)
ServedRows(reqs) == IF reqs = <<>> THEN <<>>
                    ELSE PageRows(Head(reqs).params) \o ServedRows(Tail(reqs))

\* C16: when execute returns a report, report.queries holds the queries of the
\* requests that execute issued, in the order they were issued (the query
\* executed first, then the follow-up queries), one per page merged into
\* report.rows
C16_QueriesOnePerPage ==
  [][Len(returned') > Len(returned) =>
       LET report == returned'[Len(returned')]
           reqs == CallRequests(calls)'
       IN /\ report.queries = [i \in DOMAIN reqs |-> reqs[i].query]
          /\ report.queries[1] = last'.self
          /\ report.rows = ServedRows(reqs)]_vars

\* an execute returned a report of two pages
C16_Witness ==
  /\ last.op = "execute" /\ last.error = "none" /\ returned /= <<>>
  /\ Len(returned[Len(returned)].queries) = 2
  /\ Len(returned[Len(returned)].rows) = 2
  /\ Len(CallRequests(calls)) = 2

(* ---- C18: the start_index of the follow-up requests ---- *)
\* C18: within one call, a later request carries a start_index strictly
\* greater than that of every earlier request
C18_StartIndexIncreases ==
  \A i, j \in DOMAIN requests :
    (i < j /\ requests[i].call = requests[j].call)
      => RequestStart(requests[i].params) < RequestStart(requests[j].params)

(* ---- C19: a page is merged before the next one is requested ---- *)
\* the frame of the execute the user's call runs
UserExecute == IF stack[1].fn = "execute" THEN stack[1] ELSE stack[2]

\* the pages merged so far into the report that execute is to return
Merged == IF "report" \in DOMAIN UserExecute THEN Len(UserExecute.report.queries) ELSE 0

\* C19: when a request is issued, by the execute of the user's call or by a
\* nested one, the pages of all earlier requests of the call have been merged
\* into the report the user's execute is to return
C19_SequentialPaging ==
  [][Len(requests') > Len(requests) => Len(CallRequests(calls)) = Merged]_vars

(* ---- C20: execute leaves its query as it was ---- *)
\* C20: no step of an execute, returning or failing, changes a query that
\* exists (its raw parameters, the contents of its lists, its meta), and a
\* second execute of the query returns the rows, headers and completeness
\* that the first returned
C20_ExecuteLeavesQuery ==
  [][/\ (~Idle \/ ~Idle') =>
          \A q \in QueryIds : queries'[q] = queries[q] /\ QueryView(q)' = QueryView(q)
     /\ Len(returned') = 2 =>
          /\ returned'[2].rows = returned'[1].rows
          /\ returned'[2].headers = returned'[1].headers
          /\ returned'[2].is_complete = returned'[1].is_complete]_vars

\* a query was executed twice and returned two pages each time
C20_Witness ==
  /\ Idle /\ last.op = "execute" /\ last.error = "none"
  /\ Len(returned) = 2
  /\ Len(returned[1].queries) = 2 /\ Len(returned[2].queries) = 2
  /\ returned[1].queries[1] = returned[2].queries[1]

====
